---- MODULE Spec2Model ----
(***************************************************************************)
(* Model of the seismicity / well-volume pipeline of python_code.py (batch *)
(* script) and app.py (streamlit app).                                     *)
(*                                                                         *)
(* Conventions                                                             *)
(*  - a string is a sequence of one-character strings;                     *)
(*  - a timestamp is the integer yyyymmdd, a month period is yyyymm;       *)
(*  - a magnitude is an integer number of tenths (1.5 is 15);              *)
(*  - a missing numeric value (numpy.nan) is NaN, a missing string is None;*)
(*  - a data frame is a sequence of records, one record per row;           *)
(*  - a csv file is the sequence of its rows; a column that the file does  *)
(*    not have is NoColumn in every row.                                   *)
(***************************************************************************)
EXTENDS Integers, Sequences, FiniteSets, TLC

VARIABLES program, msfile, wellfile, volfile, mmin, fpu, out

vars == <<program, msfile, wellfile, volfile, mmin, fpu, out>>

(***************************************************************************)
(* Values                                                                  *)
(***************************************************************************)
\* numpy.nan in a numeric column
NaN == -999999

\* a missing string cell (None in an object column)
None == <<"None">>

\* a Date cell whose text is not a timestamp (such as 'unknown')
BadDate == -1

\* the cell of a column that the csv file does not have
NoColumn == -2

\* an upload widget that holds no file
NoFile == <<[nofile |-> TRUE]>>

IsNaN(v) == v = NaN

\* the literal removed from Name
PGKYP == <<"P", "G", "K", "Y", "P">>

\* the delimiter of HOLE_NAME
DASH == "-"

\* the label of the event-count column
EventsCol == <<"E", "v", "e", "n", "t", "s">>

(***************************************************************************)
(* Sequence helpers                                                        *)
(***************************************************************************)
Range(s) == {s[i] : i \in 1..Len(s)}

RECURSIVE SumSeq(_)
SumSeq(s) == IF s = <<>> THEN 0 ELSE Head(s) + SumSeq(Tail(s))

RECURSIVE SortedSeq(_)
\* the elements of a finite set of integers in ascending order
SortedSeq(S) ==
    IF S = {} THEN <<>>
    ELSE LET m == CHOOSE x \in S : \A y \in S : x <= y
         IN <<m>> \o SortedSeq(S \ {m})

RECURSIVE GCD(_, _)
GCD(a, b) == IF b = 0 THEN a ELSE GCD(b, a % b)

Abs(x) == IF x < 0 THEN -x ELSE x

RECURSIVE LCMSeq(_)
LCMSeq(s) ==
    IF s = <<>> THEN 1
    ELSE LET r == LCMSeq(Tail(s)) IN (Head(s) * r) \div GCD(Head(s), r)

(***************************************************************************)
(* String operations of the pandas .str accessor                           *)
(***************************************************************************)
RECURSIVE split(_, _)
\* str.split(sep): the pieces of s between the occurrences of sep
split(s, sep) ==
    IF \A i \in 1..Len(s) : s[i] # sep THEN <<s>>
    ELSE LET i == CHOOSE k \in 1..Len(s) :
                     s[k] = sep /\ \A j \in 1..(k - 1) : s[j] # sep
         IN <<SubSeq(s, 1, i - 1)>> \o split(SubSeq(s, i + 1, Len(s)), sep)

StartsWith(s, p) == Len(s) >= Len(p) /\ SubSeq(s, 1, Len(p)) = p

RECURSIVE replace(_, _)
\* str.replace(pat, ''): s without the occurrences of pat, scanned left to right
replace(s, pat) ==
    IF s = <<>> THEN <<>>
    ELSE IF StartsWith(s, pat)
         THEN replace(SubSeq(s, Len(pat) + 1, Len(s)), pat)
         ELSE <<Head(s)>> \o replace(Tail(s), pat)

(***************************************************************************)
(* Timestamps and month periods                                            *)
(***************************************************************************)
\* Timestamp.to_period('M'): the month yyyymm of the timestamp yyyymmdd
to_period(ts) == ts \div 100

NextMonth(p) == IF p % 100 = 12 THEN p + 89 ELSE p + 1

IsLeap(y) == (y % 4 = 0 /\ y % 100 # 0) \/ y % 400 = 0

\* the month-end timestamp that resample('M') uses as the label of a bin
MonthEnd(p) ==
    LET m == p % 100
        d == IF m = 2 THEN (IF IsLeap(p \div 100) THEN 29 ELSE 28)
             ELSE IF m \in {4, 6, 9, 11} THEN 30 ELSE 31
    IN p * 100 + d

RECURSIVE MonthRange(_, _)
\* the months from lo to hi, both included, ascending
MonthRange(lo, hi) ==
    IF lo > hi THEN <<>> ELSE <<lo>> \o MonthRange(NextMonth(lo), hi)

SetMin(S) == CHOOSE x \in S : \A y \in S : x <= y
SetMax(S) == CHOOSE x \in S : \A y \in S : x >= y

(***************************************************************************)
(* Process microseismic                                                    *)
(***************************************************************************)
\* the filter with the threshold itself let through
FilterMagnitude_inclusive(ms, threshold) ==
    SelectSeq(ms, LAMBDA r : ~IsNaN(r.Mag) /\ r.Mag >= threshold)

\* microseismic[microseismic['Moment Magnitude'] > mmin]  (app.py only)
FilterMagnitude(ms, threshold) ==
    SelectSeq(ms, LAMBDA r : ~IsNaN(r.Mag) /\ r.Mag > threshold)

\* the columns monthyear (first day of the month) and Events added to a frame
AddEvents(ms) ==
    [i \in 1..Len(ms) |->
        [Date |-> ms[i].Date, Mag |-> ms[i].Mag,
         monthyear |-> to_period(ms[i].Date) * 100 + 1, Events |-> 1]]

\* a count per month that has events (a groupby instead of a resample)
resample_count_groupby(ms) ==
    IF ms = <<>> THEN <<>>
    ELSE LET ps   == {to_period(ms[i].Date) : i \in 1..Len(ms)}
             bins == SortedSeq(ps)
         IN [b \in 1..Len(bins) |->
                [index  |-> MonthEnd(bins[b]),
                 Events |-> Cardinality({i \in 1..Len(ms) :
                                to_period(ms[i].Date) = bins[b]})]]

\* microseismic[['Events']].resample('M').count(): one bin per calendar month
\* from the month of the earliest event to the month of the latest one,
\* labelled by its month end, with the number of rows falling in it
resample_count(ms) ==
    IF ms = <<>> THEN <<>>
    ELSE LET ps   == {to_period(ms[i].Date) : i \in 1..Len(ms)}
             bins == MonthRange(SetMin(ps), SetMax(ps))
         IN [b \in 1..Len(bins) |->
                [index  |-> MonthEnd(bins[b]),
                 Events |-> Cardinality({i \in 1..Len(ms) :
                                to_period(ms[i].Date) = bins[b]})]]

\* the index left as the month-end timestamps of the bins
ms_fieldwide_month_end(ms) ==
    LET r == resample_count(AddEvents(ms))
    IN [b \in 1..Len(r) |-> [month |-> r[b].index, Events |-> r[b].Events]]

\* ms_fieldwide.index = ms_fieldwide.to_period('M').index
ms_fieldwide(ms) ==
    LET r == resample_count(AddEvents(ms))
    IN [b \in 1..Len(r) |-> [month |-> to_period(r[b].index), Events |-> r[b].Events]]

(***************************************************************************)
(* Process well volumes                                                    *)
(***************************************************************************)
\* a + b on float columns: missing if either operand is missing
Add(a, b) == IF IsNaN(a) \/ IsNaN(b) THEN NaN ELSE a + b

Neg(a) == IF IsNaN(a) THEN NaN ELSE 0 - a

RECURSIVE SumSkipNa(_)
\* sum with skipna=True: missing values are skipped, the empty sum is 0
SumSkipNa(s) ==
    IF s = <<>> THEN 0
    ELSE (IF IsNaN(Head(s)) THEN 0 ELSE Head(s)) + SumSkipNa(Tail(s))

\* the total with the injected volume added instead of subtracted
TOTAL_unsigned(r) ==
    Add(Add(r.STEAM_INJECTION, r.WATER_INJECTION), SumSkipNa(<<r.OIL, r.WATER>>))

INJECTED(r) == Add(r.STEAM_INJECTION, r.WATER_INJECTION)
PRODUCED(r) == SumSkipNa(<<r.OIL, r.WATER>>)
TOTAL(r)    == Add(Neg(INJECTED(r)), PRODUCED(r))

\* number of columns of HOLE_NAME.str.split('-', expand=True)
SplitWidth(vol) ==
    IF vol = <<>> THEN 0
    ELSE SetMax({Len(split(vol[i].HOLE_NAME, DASH)) : i \in 1..Len(vol)})

\* assigning the expanded frame to the two columns ['prefix','w_id'] raises
\* ValueError unless it has exactly two columns
SplitRaises(vol) == SplitWidth(vol) # 2

\* cell k of the expanded row: the k-th piece, None where the row has fewer
SplitCell(name, k) ==
    LET parts == split(name, DASH)
    IN IF k <= Len(parts) THEN parts[k] ELSE None

NormalizeVolumeRow(r) ==
    [HOLE_NAME |-> r.HOLE_NAME, START_DATE |-> r.START_DATE,
     OIL |-> r.OIL, WATER |-> r.WATER,
     STEAM_INJECTION |-> r.STEAM_INJECTION, WATER_INJECTION |-> r.WATER_INJECTION,
     INJECTED |-> INJECTED(r), PRODUCED |-> PRODUCED(r), TOTAL |-> TOTAL(r),
     prefix |-> SplitCell(r.HOLE_NAME, 1), w_id |-> SplitCell(r.HOLE_NAME, 2)]

\* well_volumes after "Process well volumes" (defined when the split does not raise)
well_volumes(vol) == [i \in 1..Len(vol) |-> NormalizeVolumeRow(vol[i])]

(***************************************************************************)
(* Process well locations                                                  *)
(***************************************************************************)
\* a normalization that strips a leading prefix and gives an empty id otherwise
NormalizeWellRow_or_empty(r) ==
    [Name |-> r.Name, Type |-> r.Type,
     w_id |-> IF StartsWith(r.Name, PGKYP)
              THEN SubSeq(r.Name, Len(PGKYP) + 1, Len(r.Name)) ELSE <<>>]

NormalizeWellRow(r) ==
    [Name |-> r.Name, Type |-> r.Type, w_id |-> replace(r.Name, PGKYP)]

well_locations(wl) == [i \in 1..Len(wl) |-> NormalizeWellRow(wl[i])]

(***************************************************************************)
(* Numbers of the aggregated tables: a rational n/d in lowest terms with   *)
(* d > 0 (a mean need not be an integer); 0/0 is the missing value         *)
(***************************************************************************)
Q(n, d) == LET g == GCD(Abs(n), d) IN [n |-> n \div g, d |-> d \div g]

NaNQ == [n |-> 0, d |-> 0]

\* the default aggregation of pivot_table (aggfunc='mean')
mean(s) == Q(SumSeq(s), Len(s))

(***************************************************************************)
(* Volumes per well                                                        *)
(***************************************************************************)
\* the non-missing TOTAL values of the rows of one START_DATE and one w_id
GroupTotals(vw, date, w) ==
    LET g == SelectSeq(vw, LAMBDA r :
                 r.START_DATE = date /\ r.w_id = w /\ ~IsNaN(r.TOTAL))
    IN [i \in 1..Len(g) |-> g[i].TOTAL]

\* well_volumes.pivot_table(index='START_DATE', columns='w_id', values='TOTAL'):
\* rows with a missing key are left out of the groups, a group whose mean is
\* missing is dropped (dropna=True), so a row or a column appears only if it
\* has at least one value; the other cells of the grid are missing
pivot_table(vw) ==
    LET G     == {<<vw[i].START_DATE, vw[i].w_id>> :
                     i \in {k \in 1..Len(vw) :
                               vw[k].w_id # None /\ ~IsNaN(vw[k].TOTAL)}}
        dates == SortedSeq({g[1] : g \in G})
        cols  == {g[2] : g \in G}
    IN [columns |-> cols,
        rows    |-> [i \in 1..Len(dates) |->
                       [index |-> dates[i],
                        cells |-> [w \in cols |->
                                     IF <<dates[i], w>> \in G
                                     THEN mean(GroupTotals(vw, dates[i], w))
                                     ELSE NaNQ]]]]

\* volume_per_well.index = volume_per_well.index.to_period('M')
index_to_period(t) ==
    [columns |-> t.columns,
     rows    |-> [i \in 1..Len(t.rows) |->
                    [index |-> to_period(t.rows[i].index), cells |-> t.rows[i].cells]]]

\* the table left with its missing cells
fillna_skipped(t) == t

\* volume_per_well.fillna(0, inplace=True)
fillna(t) ==
    [columns |-> t.columns,
     rows    |-> [i \in 1..Len(t.rows) |->
                    [index |-> t.rows[i].index,
                     cells |-> [w \in t.columns |->
                                  IF t.rows[i].cells[w] = NaNQ THEN Q(0, 1)
                                  ELSE t.rows[i].cells[w]]]]]

volume_per_well(vw) == fillna(index_to_period(pivot_table(vw)))

(***************************************************************************)
(* Combine volumes with well location data                                 *)
(***************************************************************************)
NumericCols ==
    {"OIL", "WATER", "STEAM_INJECTION", "WATER_INJECTION",
     "INJECTED", "PRODUCED", "TOTAL"}

\* the values of column c in the rows of well w
ColumnOf(vw, w, c) ==
    LET g == SelectSeq(vw, LAMBDA r : r.w_id = w)
    IN [i \in 1..Len(g) |-> g[i][c]]

\* sums in which a missing value makes the sum missing (skipna=False)
summed_volumes_propagate(vw) ==
    LET keys == {vw[i].w_id : i \in 1..Len(vw)} \ {None}
    IN [w \in keys |-> [c \in NumericCols |->
           IF \E i \in 1..Len(vw) : vw[i].w_id = w /\ IsNaN(vw[i][c])
           THEN NaN ELSE SumSkipNa(ColumnOf(vw, w, c))]]

\* well_volumes.groupby(by='w_id').sum(): one row per non-missing w_id with
\* the sum of each numeric column, missing values skipped
summed_volumes(vw) ==
    LET keys == {vw[i].w_id : i \in 1..Len(vw)} \ {None}
    IN [w \in keys |-> [c \in NumericCols |-> SumSkipNa(ColumnOf(vw, w, c))]]

\* pd.merge(well_locations, summed_volumes, left_index=True, right_index=True):
\* inner join on the index w_id, in the order of the left rows
wells(locs, summed) ==
    LET hit == SelectSeq(locs, LAMBDA r : r.w_id \in DOMAIN summed)
    IN [i \in 1..Len(hit) |->
          [Name |-> hit[i].Name, Type |-> hit[i].Type, w_id |-> hit[i].w_id,
           OIL |-> summed[hit[i].w_id]["OIL"],
           WATER |-> summed[hit[i].w_id]["WATER"],
           STEAM_INJECTION |-> summed[hit[i].w_id]["STEAM_INJECTION"],
           WATER_INJECTION |-> summed[hit[i].w_id]["WATER_INJECTION"],
           INJECTED |-> summed[hit[i].w_id]["INJECTED"],
           PRODUCED |-> summed[hit[i].w_id]["PRODUCED"],
           TOTAL |-> summed[hit[i].w_id]["TOTAL"]]]

(***************************************************************************)
(* Add microseismic summary to combined dataset                            *)
(***************************************************************************)
RECURSIVE MatchRows(_, _, _)
\* for each left row from i on, in order, one row per right row of its month
MatchRows(left, right, i) ==
    IF i > Len(left) THEN <<>>
    ELSE LET m == SelectSeq(right, LAMBDA r : r.index = left[i].month)
         IN [j \in 1..Len(m) |->
                [month |-> left[i].month, Events |-> left[i].Events,
                 cells |-> m[j].cells]]
            \o MatchRows(left, right, i + 1)

\* pd.merge(ms_fieldwide, volume_per_well, left_index=True, right_index=True)
merged_final(msf, vpw) ==
    [columns |-> vpw.columns, rows |-> MatchRows(msf, vpw.rows, 1)]

(***************************************************************************)
(* Get correlations                                                        *)
(*                                                                         *)
(* A coefficient r is the record [num, den, ulp]: sign(r) * r^2 = num/den  *)
(* in lowest terms, and ulp is the distance, in units of the last place,   *)
(* of the float the library returns from r.  0/0 is the missing value.     *)
(* The float evaluation of a perfectly correlated pair of different series *)
(* of three or more points returns 1.0 or a neighbour of it, depending on  *)
(* the series and on the library build (e.g. counts 1,0,1 against totals   *)
(* 12,3,12 give 0.9999999999999999); fpu chooses between the two outcomes. *)
(* The correlation of a series with itself divides a number by itself and  *)
(* is exactly 1.0.                                                         *)
(***************************************************************************)
NaNCoef == [num |-> 0, den |-> 0, ulp |-> 0]

One == [num |-> 1, den |-> 1, ulp |-> 0]

Sign(x) == IF x < 0 THEN 0 - 1 ELSE IF x > 0 THEN 1 ELSE 0

Dot(a, b) == SumSeq([i \in 1..Len(a) |-> a[i] * b[i]])

\* the series brought to a common denominator (the coefficient is unchanged
\* by a positive scaling of a series)
Scaled(x) ==
    LET L == LCMSeq([i \in 1..Len(x) |-> x[i].d])
    IN [i \in 1..Len(x) |-> x[i].n * (L \div x[i].d)]

\* Pearson's r over the rows where both series have a value (min_periods=1)
Pearson(x, y, rounding) ==
    LET ok == {i \in 1..Len(x) : x[i] # NaNQ /\ y[i] # NaNQ}
        ix == SortedSeq(ok)
        a  == Scaled([k \in 1..Len(ix) |-> x[ix[k]]])
        b  == Scaled([k \in 1..Len(ix) |-> y[ix[k]]])
        n  == Len(ix)
        c  == n * Dot(a, b) - SumSeq(a) * SumSeq(b)
        va == n * Dot(a, a) - SumSeq(a) * SumSeq(a)
        vb == n * Dot(b, b) - SumSeq(b) * SumSeq(b)
    IN IF n < 1 \/ va = 0 \/ vb = 0 THEN NaNCoef
       ELSE LET g == GCD(c * c, va * vb)
            IN [num |-> Sign(c) * ((c * c) \div g),
                den |-> (va * vb) \div g,
                ulp |-> IF rounding = "inexact" /\ n >= 3 /\ a # b
                           /\ c * c = va * vb
                        THEN 0 - 1 ELSE 0]

Labels(m) == {EventsCol} \cup m.columns

\* the series of one column of merged_final
Series(m, label) ==
    [i \in 1..Len(m.rows) |->
        IF label = EventsCol THEN Q(m.rows[i].Events, 1)
        ELSE m.rows[i].cells[label]]

\* a matrix whose diagonal is 1 whatever the series
corr_unit_diagonal(m, rounding) ==
    [a \in Labels(m) |-> [b \in Labels(m) |->
        IF a = b THEN One ELSE Pearson(Series(m, a), Series(m, b), rounding)]]

\* merged_final.corr(): [column][row]
corr(m, rounding) ==
    [a \in Labels(m) |-> [b \in Labels(m) |->
        Pearson(Series(m, a), Series(m, b), rounding)]]

\* corr_per_well['labels'] = corr_per_well.columns
\* corr_per_well[corr_per_well == 1] = np.nan
\* (a label is a string and is never equal to 1)
null_ones(c) ==
    [coef   |-> [a \in DOMAIN c |-> [b \in DOMAIN c |->
                    IF c[a][b] = One THEN NaNCoef ELSE c[a][b]]],
     labels |-> [b \in DOMAIN c |-> b]]

corr_per_well(m, rounding) == null_ones(corr(m, rounding))

\* pd.merge(wells, corr_per_well[['Events']], left_index=True, right_index=True)
\* and the renaming of Events to Correlation
wells_final(w, cpw) ==
    LET hit == SelectSeq(w, LAMBDA r : r.w_id \in DOMAIN cpw.coef[EventsCol])
    IN [i \in 1..Len(hit) |->
          [Name |-> hit[i].Name, Type |-> hit[i].Type, w_id |-> hit[i].w_id,
           OIL |-> hit[i].OIL, WATER |-> hit[i].WATER,
           STEAM_INJECTION |-> hit[i].STEAM_INJECTION,
           WATER_INJECTION |-> hit[i].WATER_INJECTION,
           INJECTED |-> hit[i].INJECTED, PRODUCED |-> hit[i].PRODUCED,
           TOTAL |-> hit[i].TOTAL,
           Correlation |-> cpw.coef[EventsCol][hit[i].w_id]]]

(***************************************************************************)
(* The two scripts                                                         *)
(***************************************************************************)
EmptyFrame == [columns |-> {}, rows |-> <<>>]

NoCorr == [coef |-> <<>>, labels |-> <<>>]

\* the tables of a run that has not reached the processing block
NoTables(st, shown) ==
    [status |-> st, stage |-> "load",
     subheaders |-> shown, info |-> (st = "prompt"), charts |-> 0,
     microseismic |-> <<>>, ms_fieldwide |-> <<>>, well_volumes |-> <<>>,
     well_locations |-> <<>>, volume_per_well |-> EmptyFrame,
     summed_volumes |-> <<>>, wells |-> <<>>, merged_final |-> EmptyFrame,
     corr |-> <<>>, corr_per_well |-> NoCorr, wells_final |-> <<>>]

\* "Process microseismic" to "Create some figures" on the three loaded frames;
\* the ValueError of the HOLE_NAME split ends the run before any later table
Process(ms, wl, vol, rounding, shown, figures) ==
    IF SplitRaises(vol)
    THEN [NoTables("error", shown) EXCEPT
             !.stage = "volumes",
             !.microseismic = AddEvents(ms), !.ms_fieldwide = ms_fieldwide(ms)]
    ELSE LET vw   == well_volumes(vol)
             locs == well_locations(wl)
             msf  == ms_fieldwide(ms)
             vpw  == volume_per_well(vw)
             sv   == summed_volumes(vw)
             w    == wells(locs, sv)
             mf   == merged_final(msf, vpw)
             cpw  == corr_per_well(mf, rounding)
         IN [status |-> "done", stage |-> "figures",
             subheaders |-> shown, info |-> FALSE,
             charts |-> figures,
             microseismic |-> AddEvents(ms), ms_fieldwide |-> msf,
             well_volumes |-> vw, well_locations |-> locs,
             volume_per_well |-> vpw, summed_volumes |-> sv, wells |-> w,
             merged_final |-> mf, corr |-> corr(mf, rounding),
             corr_per_well |-> cpw, wells_final |-> wells_final(w, cpw)]

\* pd.to_datetime(microseismic['Date']) raises KeyError when the frame has no
\* column Date and ValueError when a Date is not a timestamp
DateRaises(ms) == \E i \in 1..Len(ms) : ms[i].Date \in {NoColumn, BadDate}

\* a run stopped by its first statement after the three read_csv calls
StoppedAtDate(shown) == [NoTables("error", shown) EXCEPT !.stage = "microseismic"]

\* python_code.py: the three csv files are read, no magnitude filter, two figures
python_code(ms, wl, vol, rounding) ==
    IF DateRaises(ms) THEN StoppedAtDate({})
    ELSE Process(ms, wl, vol, rounding, {}, 2)

\* a script whose processing block is gated on two of the three uploads
app_two_inputs(ms, wl, vol, threshold, rounding) ==
    LET shown == {f \in {"microseismic", "well_locations", "well_volumes"} :
                     \/ f = "microseismic" /\ ms # NoFile
                     \/ f = "well_locations" /\ wl # NoFile
                     \/ f = "well_volumes" /\ vol # NoFile}
    IN IF ms # NoFile /\ vol # NoFile
       THEN IF DateRaises(ms) THEN StoppedAtDate(shown)
            ELSE Process(FilterMagnitude(ms, threshold),
                         IF wl = NoFile THEN <<>> ELSE wl, vol, rounding, shown, 3)
       ELSE NoTables("prompt", shown)

\* app.py, one execution of the script on the current widget values
app(ms, wl, vol, threshold, rounding) ==
    LET shown == {f \in {"microseismic", "well_locations", "well_volumes"} :
                     \/ f = "microseismic" /\ ms # NoFile
                     \/ f = "well_locations" /\ wl # NoFile
                     \/ f = "well_volumes" /\ vol # NoFile}
    IN IF ms # NoFile /\ wl # NoFile /\ vol # NoFile
       THEN IF DateRaises(ms) THEN StoppedAtDate(shown)
            ELSE Process(FilterMagnitude(ms, threshold), wl, vol, rounding, shown, 3)
       ELSE NoTables("prompt", shown)

(***************************************************************************)
(* Inputs                                                                  *)
(***************************************************************************)
MaxEvents == 2
MaxWells == 2
MaxVolRows == 3

\* the tables of at most n rows drawn from Rows
Tables(Rows, n) == UNION {[1..k -> Rows] : k \in 0..n}

Ev(date, mag) == [Date |-> date, Mag |-> mag]

Well(name, type) == [Name |-> name, Type |-> type]

Vol(name, date, oil, water, steam, winj) ==
    [HOLE_NAME |-> name, START_DATE |-> date, OIL |-> oil, WATER |-> water,
     STEAM_INJECTION |-> steam, WATER_INJECTION |-> winj]

Id07 == <<"0", "7">>
Id08 == <<"0", "8">>
Hole07 == PGKYP \o <<DASH>> \o Id07
Hole08 == PGKYP \o <<DASH>> \o Id08

\* events of January (two) and March 2020, magnitudes 1.5, 2.5 and 1.0
EventRows == {Ev(20200110, 15), Ev(20200120, 25), Ev(20200305, 10)}

\* two events in January 2020 and one in February 2020
BaseEvents == <<Ev(20200110, 15), Ev(20200120, 25), Ev(20200215, 30)>>

\* well names with the prefix, with a hyphen after it, without the prefix,
\* with the prefix inside and the bare prefix
WellRows ==
    {Well(PGKYP \o Id07, "Producer"), Well(PGKYP \o Id08, "Injector"),
     Well(Hole07, "Producer"), Well(<<"W">> \o Id08, "Injector"),
     Well(<<"X">> \o PGKYP \o Id07, "Observation"), Well(PGKYP, "Injector")}

BaseWells == <<Well(PGKYP \o Id07, "Producer"), Well(PGKYP \o Id08, "Injector")>>

\* monthly records of one well, and a record of another well dated mid-month
MonthlyRows ==
    {Vol(Hole07, 20200101, 10, 5, 2, 1), Vol(Hole07, 20200201, 3, 1, 1, 0),
     Vol(Hole07, 20200301, 10, 5, 2, 1), Vol(Hole08, 20200115, 0, 0, 4, 2)}

\* records with the four volumes present or partly missing, and hole names
\* with one, no and two delimiters
MeasuredRows ==
    {Vol(Hole07, 20200101, 100, 50, 20, 10), Vol(Hole07, 20200201, 10, 5, NaN, 1),
     Vol(Hole08, 20200101, NaN, 5, 2, 1), Vol(Hole08, 20200201, 10, NaN, NaN, NaN),
     Vol(PGKYP \o Id08, 20200101, 10, 5, 2, 1),
     Vol(PGKYP \o <<DASH, "0", DASH, "7">>, 20200101, 10, 5, 2, 1)}

BaseVolumes ==
    <<Vol(Hole07, 20200101, 10, 5, 2, 1), Vol(Hole07, 20200201, 3, 1, 1, 0),
      Vol(Hole08, 20200101, 0, 0, 4, 2)>>

\* positions of the slider "Minumum magnitude", in tenths; 10 is its default
SliderValues == {0, 10, 15, 30}

Roundings == {"exact", "inexact"}

\* volume files checked against every table of wells
JoinVolumes == {BaseVolumes, <<Vol(Hole08, 20200115, 0, 0, 4, 2)>>}

\* a well with a monthly record of zero total next to a well whose total varies
ZeroTotalVolumes ==
    <<Vol(Hole07, 20200101, 10, 5, 2, 1), Vol(Hole07, 20200201, 3, 1, 1, 0),
      Vol(Hole08, 20200101, 4, 2, 4, 2), Vol(Hole08, 20200201, 4, 2, 4, 2)>>

\* two records of one well with the same START_DATE and different volumes
RepeatedVolumes ==
    <<Vol(Hole07, 20200101, 10, 5, 2, 1), Vol(Hole07, 20200101, 3, 1, 1, 0),
      Vol(Hole08, 20200101, 0, 0, 4, 2)>>

\* volume files chosen for the shape of the monthly series they give
SeriesVolumes == {ZeroTotalVolumes, RepeatedVolumes}

\* event files with a Date that is not a timestamp, and one without the column
MalformedEvents ==
    {<<Ev(BadDate, 15)>>, <<Ev(20200110, 15), Ev(BadDate, 25)>>,
     <<Ev(NoColumn, 15), Ev(NoColumn, 25)>>}

\* the csv files python_code.py is run on
BatchInputs ==
    \* volume tables
    ({BaseEvents} \X {BaseWells} \X Tables(MeasuredRows, MaxVolRows))
    \* event tables against monthly volumes
    \cup (Tables(EventRows, MaxEvents) \X {BaseWells} \X Tables(MonthlyRows, MaxVolRows))
    \* well tables
    \cup ({BaseEvents} \X Tables(WellRows, MaxWells) \X JoinVolumes)
    \* monthly series
    \cup ({BaseEvents} \X {BaseWells} \X SeriesVolumes)
    \* event files that do not follow the schema
    \cup (MalformedEvents \X {BaseWells} \X {BaseVolumes})

\* the files a user of the app uploads
AppEventFiles ==
    {BaseEvents, <<Ev(20200110, 15), Ev(20200305, 10)>>,
     <<Ev(20200120, 25), Ev(20200110, 15), Ev(20200305, 10)>>, <<>>,
     <<Ev(20200110, 15), Ev(BadDate, 25)>>}
AppWellFiles == {BaseWells, <<Well(Hole07, "Producer")>>}
AppVolumeFiles ==
    {BaseVolumes, <<Vol(Hole07, 20200101, 100, 50, 20, 10)>>,
     <<Vol(PGKYP \o Id08, 20200101, 10, 5, 2, 1)>>}

(***************************************************************************)
(* State machine                                                           *)
(***************************************************************************)
InitBatch ==
    /\ program = "python_code"
    /\ \E f \in BatchInputs : msfile = f[1] /\ wellfile = f[2] /\ volfile = f[3]
    /\ mmin = 0
    /\ fpu \in Roundings
    /\ out = NoTables("notrun", {})

\* the app starts with empty upload widgets and the slider at its default
InitApp ==
    /\ program = "app"
    /\ msfile = NoFile /\ wellfile = NoFile /\ volfile = NoFile
    /\ mmin = 10
    /\ fpu \in Roundings
    /\ out = app(NoFile, NoFile, NoFile, 10, fpu)

Init == InitBatch \/ InitApp

\* python python_code.py
BatchRun ==
    /\ program = "python_code"
    /\ out.status = "notrun"
    /\ out' = python_code(msfile, wellfile, volfile, fpu)
    /\ UNCHANGED <<program, msfile, wellfile, volfile, mmin, fpu>>

\* a rerun that keeps the tables of the previous run while the files are the same
Rerun_incremental ==
    out' = IF msfile' = msfile /\ wellfile' = wellfile /\ volfile' = volfile
           THEN out
           ELSE app(msfile', wellfile', volfile', mmin', fpu)

\* every widget event makes streamlit execute app.py from its first line
Rerun == out' = app(msfile', wellfile', volfile', mmin', fpu)

UploadMs ==
    /\ program = "app"
    /\ \E f \in AppEventFiles : f # msfile /\ msfile' = f
    /\ UNCHANGED <<program, wellfile, volfile, mmin, fpu>>
    /\ Rerun

UploadWell ==
    /\ program = "app"
    /\ \E f \in AppWellFiles : f # wellfile /\ wellfile' = f
    /\ UNCHANGED <<program, msfile, volfile, mmin, fpu>>
    /\ Rerun

UploadVol ==
    /\ program = "app"
    /\ \E f \in AppVolumeFiles : f # volfile /\ volfile' = f
    /\ UNCHANGED <<program, msfile, wellfile, mmin, fpu>>
    /\ Rerun

RemoveMs ==
    /\ program = "app"
    /\ msfile # NoFile /\ msfile' = NoFile
    /\ UNCHANGED <<program, wellfile, volfile, mmin, fpu>>
    /\ Rerun

RemoveWell ==
    /\ program = "app"
    /\ wellfile # NoFile /\ wellfile' = NoFile
    /\ UNCHANGED <<program, msfile, volfile, mmin, fpu>>
    /\ Rerun

RemoveVol ==
    /\ program = "app"
    /\ volfile # NoFile /\ volfile' = NoFile
    /\ UNCHANGED <<program, msfile, wellfile, mmin, fpu>>
    /\ Rerun

Slider ==
    /\ program = "app"
    /\ \E m \in SliderValues : m # mmin /\ mmin' = m
    /\ UNCHANGED <<program, msfile, wellfile, volfile, fpu>>
    /\ Rerun

Next ==
    \/ BatchRun
    \/ UploadMs \/ UploadWell \/ UploadVol
    \/ RemoveMs \/ RemoveWell \/ RemoveVol
    \/ Slider

Spec == Init /\ [][Next]_vars

(***************************************************************************)
(* Properties                                                              *)
(***************************************************************************)
Done == out.status = "done"

\* the run got past "Process microseismic"
MsComputed == out.status = "done" \/ (out.status = "error" /\ out.stage = "volumes")

\* the rows of the event file that enter the aggregation of the last run
Entering ==
    IF msfile = NoFile THEN {}
    ELSE {i \in 1..Len(msfile) : program = "python_code" \/ msfile[i].Mag > mmin}

EventsInMonth(p) == Cardinality({i \in Entering : msfile[i].Date \div 100 = p})

Present(r) ==
    /\ ~IsNaN(r.OIL) /\ ~IsNaN(r.WATER)
    /\ ~IsNaN(r.STEAM_INJECTION) /\ ~IsNaN(r.WATER_INJECTION)

\* C1: every normalized Volume row keeps its measured volumes, and when the
\* four of them are present it has INJECTED = STEAM_INJECTION + WATER_INJECTION,
\* PRODUCED = OIL + WATER and TOTAL = PRODUCED - INJECTED
C1_DerivedVolumes ==
    Done =>
        /\ Len(out.well_volumes) = Len(volfile)
        /\ \A i \in 1..Len(volfile) :
              LET r == out.well_volumes[i]
              IN /\ r.OIL = volfile[i].OIL /\ r.WATER = volfile[i].WATER
                 /\ r.STEAM_INJECTION = volfile[i].STEAM_INJECTION
                 /\ r.WATER_INJECTION = volfile[i].WATER_INJECTION
                 /\ Present(r) =>
                       /\ r.INJECTED = r.STEAM_INJECTION + r.WATER_INJECTION
                       /\ r.PRODUCED = r.OIL + r.WATER
                       /\ r.TOTAL = (r.OIL + r.WATER)
                                      - (r.STEAM_INJECTION + r.WATER_INJECTION)

\* the row PGKYP-07 with 100, 50, 20, 10 has been normalized to 30, 150, 120
C1_Witness ==
    /\ Done
    /\ \E i \in 1..Len(out.well_volumes) :
          LET r == out.well_volumes[i]
          IN /\ r.HOLE_NAME = Hole07 /\ r.w_id = Id07
             /\ r.OIL = 100 /\ r.WATER = 50
             /\ r.STEAM_INJECTION = 20 /\ r.WATER_INJECTION = 10
             /\ r.INJECTED = 30 /\ r.PRODUCED = 150 /\ r.TOTAL = 120

\* C2: each month in which an event falls has exactly one row of ms_fieldwide,
\* the count of that row is the number of events of the month, and the rows
\* are in ascending month order
C2_MonthlyEventCount ==
    MsComputed =>
        LET msf == out.ms_fieldwide
        IN /\ \A i \in Entering :
                 Cardinality({b \in 1..Len(msf) :
                                 msf[b].month = msfile[i].Date \div 100}) = 1
           /\ \A b \in 1..Len(msf) :
                 EventsInMonth(msf[b].month) > 0 =>
                     msf[b].Events = EventsInMonth(msf[b].month)
           /\ \A b \in 1..(Len(msf) - 1) : msf[b].month < msf[b + 1].month

\* two events in 2020-01 and one in 2020-02 gave the rows (2020-01, 2), (2020-02, 1)
C2_Witness ==
    /\ MsComputed
    /\ {msfile[i].Date \div 100 : i \in Entering} = {202001, 202002}
    /\ EventsInMonth(202001) = 2 /\ EventsInMonth(202002) = 1
    /\ out.ms_fieldwide = <<[month |-> 202001, Events |-> 2],
                            [month |-> 202002, Events |-> 1]>>

\* C3 (as claimed): every row of ms_fieldwide is the row of a month in which
\* an event falls
C3_NoGapRows ==
    MsComputed =>
        \A b \in 1..Len(out.ms_fieldwide) :
            EventsInMonth(out.ms_fieldwide[b].month) > 0

\* C3 (amended): ms_fieldwide has one row for every calendar month from the
\* first to the last event month, and the row of a month in which no event
\* falls has the count 0
C3_GapsFilled ==
    MsComputed =>
        LET msf == out.ms_fieldwide
            ms  == {msfile[i].Date \div 100 : i \in Entering}
        IN /\ (ms = {}) <=> (msf = <<>>)
           /\ ms # {} =>
                 /\ msf[1].month = SetMin(ms)
                 /\ msf[Len(msf)].month = SetMax(ms)
           /\ \A b \in 1..(Len(msf) - 1) :
                 msf[b + 1].month = NextMonth(msf[b].month)
           /\ \A b \in 1..Len(msf) :
                 EventsInMonth(msf[b].month) = 0 => msf[b].Events = 0

\* events in January and March only: February has a row with the count 0
C3_Witness ==
    /\ MsComputed
    /\ EventsInMonth(202001) > 0 /\ EventsInMonth(202002) = 0
    /\ EventsInMonth(202003) > 0
    /\ \E b \in 1..Len(out.ms_fieldwide) :
          out.ms_fieldwide[b] = [month |-> 202002, Events |-> 0]

\* C4: the counts of ms_fieldwide sum to the number of events that enter the
\* aggregation: all rows in python_code.py, the rows with a magnitude strictly
\* greater than the threshold in app.py
C4_CountsSum ==
    MsComputed =>
        SumSeq([b \in 1..Len(out.ms_fieldwide) |-> out.ms_fieldwide[b].Events])
            = Cardinality(Entering)

\* an app run in which an event at the threshold is left out and another counted
C4_Witness ==
    /\ program = "app" /\ MsComputed
    /\ \E i \in 1..Len(msfile) : msfile[i].Mag = mmin
    /\ Cardinality(Entering) > 0 /\ Cardinality(Entering) < Len(msfile)
    /\ SumSeq([b \in 1..Len(out.ms_fieldwide) |-> out.ms_fieldwide[b].Events])
          = Cardinality(Entering)

\* the distinct well ids among the normalized Volume rows
VolumeIds ==
    {out.well_volumes[i].w_id : i \in 1..Len(out.well_volumes)} \ {None}

\* the well ids of the normalized Well table
WellIds == {out.well_locations[i].w_id : i \in 1..Len(out.well_locations)}

Dashes(name) == Cardinality({k \in 1..Len(name) : name[k] = DASH})

\* some Volume row has a well id and a TOTAL, so that the pivot is not empty
HasTotal ==
    \E i \in 1..Len(volfile) :
        /\ Dashes(volfile[i].HOLE_NAME) = 1
        /\ ~IsNaN(volfile[i].STEAM_INJECTION) /\ ~IsNaN(volfile[i].WATER_INJECTION)

\* C5: after the pivot and the fill with 0, volume_per_well (of a Volume table
\* with at least one TOTAL) has no missing cell and as many columns as there
\* are distinct w_id values among the Volume rows, wells whose TOTAL values
\* are all missing included
C5_PivotColumns ==
    (Done /\ HasTotal) =>
        LET vpw == out.volume_per_well
        IN /\ \A i \in 1..Len(vpw.rows) : \A w \in vpw.columns :
                 vpw.rows[i].cells[w] # NaNQ
           /\ Cardinality(vpw.columns) = Cardinality(VolumeIds)

\* a run of the processing block has been attempted on the loaded files
Ran == out.status \in {"done", "error"}

\* C6: HOLE_NAME is split on '-' into (prefix, w_id), and a run on a Volume
\* table in which some HOLE_NAME has no or more than one '-' stops with an error
C6_SplitError ==
    (Ran /\ HasTotal) =>
        /\ Done => \A i \in 1..Len(out.well_volumes) :
              LET r == out.well_volumes[i]
              IN Dashes(r.HOLE_NAME) = 1 =>
                     r.prefix \o <<DASH>> \o r.w_id = r.HOLE_NAME
        /\ (\E i \in 1..Len(volfile) : Dashes(volfile[i].HOLE_NAME) # 1) =>
              out.status = "error"

\* p occurs in s at position k
At(s, k, p) == k + Len(p) - 1 <= Len(s) /\ SubSeq(s, k, k + Len(p) - 1) = p

Contains(s, p) == \E k \in 1..Len(s) : At(s, k, p)

\* C7 (as claimed): a well whose Name does not contain 'PGKYP' gets a null or
\* empty w_id
C7_EmptyWithoutPrefix ==
    Done => \A i \in 1..Len(out.well_locations) :
        LET r == out.well_locations[i]
        IN ~Contains(r.Name, PGKYP) => r.w_id \in {None, <<>>}

\* C7 (amended): w_id is Name with the literal 'PGKYP' removed; a well whose
\* Name does not contain it gets its Name, unchanged, as w_id; no well name
\* makes the run fail
C7_NameWithoutLiteral ==
    /\ MsComputed /\ volfile # <<>> /\ (\A i \in 1..Len(volfile) :
                                          Dashes(volfile[i].HOLE_NAME) = 1) => Done
    /\ Done =>
          /\ Len(out.well_locations) = Len(wellfile)
          /\ \A i \in 1..Len(wellfile) :
                LET r == out.well_locations[i]
                    n == wellfile[i].Name
                IN /\ r.Name = n
                   /\ ~Contains(n, PGKYP) => r.w_id = n
                   /\ \A k \in 1..Len(n) :
                         (/\ At(n, k, PGKYP)
                          /\ \A j \in 1..Len(n) : At(n, j, PGKYP) => j = k)
                         => r.w_id = SubSeq(n, 1, k - 1)
                                       \o SubSeq(n, k + Len(PGKYP), Len(n))

\* a well named without the literal has been normalized, and one named with it
C7_Witness ==
    /\ Done
    /\ \E i \in 1..Len(out.well_locations) :
          LET r == out.well_locations[i]
          IN ~Contains(r.Name, PGKYP) /\ r.Name # <<>> /\ r.w_id = r.Name
    /\ \E i \in 1..Len(out.well_locations) :
          LET r == out.well_locations[i]
          IN r.Name = PGKYP \o Id07 /\ r.w_id = Id07

RECURSIVE SumOver(_, _)
\* the sum of the present values of column c over the Volume rows I
SumOver(I, c) ==
    IF I = {} THEN 0
    ELSE LET i == CHOOSE x \in I : TRUE
             v == out.well_volumes[i][c]
         IN (IF v = NaN THEN 0 ELSE v) + SumOver(I \ {i}, c)

\* C8: wells has one row for each Well row whose w_id has Volume rows and no
\* other row, so its w_ids are the intersection of the two tables' w_ids;
\* each row carries the well's name and type and the sums of the numeric
\* columns over all Volume rows of the well; nothing fails on unmatched ids
C8_WellsJoin ==
    Done =>
        LET locs == out.well_locations
            hit  == SelectSeq(locs, LAMBDA r : r.w_id \in VolumeIds)
        IN /\ {out.wells[k].w_id : k \in 1..Len(out.wells)}
                 = WellIds \cap VolumeIds
           /\ Len(out.wells) = Len(hit)
           /\ \A k \in 1..Len(out.wells) :
                 /\ out.wells[k].Name = hit[k].Name
                 /\ out.wells[k].Type = hit[k].Type
                 /\ out.wells[k].w_id = hit[k].w_id
                 /\ \A c \in NumericCols :
                       out.wells[k][c] =
                           SumOver({i \in 1..Len(out.well_volumes) :
                                       out.well_volumes[i].w_id = hit[k].w_id}, c)

\* a run that dropped a well without volumes and a volume id without a well
\* and joined a well that has two Volume rows
C8_Witness ==
    /\ Done
    /\ WellIds \ VolumeIds # {}
    /\ VolumeIds \ WellIds # {}
    /\ \E k \in 1..Len(out.wells) :
          Cardinality({i \in 1..Len(out.well_volumes) :
                          out.well_volumes[i].w_id = out.wells[k].w_id}) >= 2

\* the Volume file has at most one record per well and month
OnePerWellMonth ==
    \A i, j \in 1..Len(volfile) :
        (/\ volfile[i].HOLE_NAME = volfile[j].HOLE_NAME
         /\ volfile[i].START_DATE \div 100 = volfile[j].START_DATE \div 100)
        => i = j

\* C9: merged_final has exactly one row for each month that has a row in both
\* ms_fieldwide and volume_per_well and no row for another month, and the row
\* carries the event count of the month and every well's TOTAL for the month
C9_MergedMonthly ==
    (Done /\ OnePerWellMonth) =>
        LET m   == out.merged_final.rows
            msf == out.ms_fieldwide
            vpw == out.volume_per_well
            em  == {msf[b].month : b \in 1..Len(msf)}
            vm  == {vpw.rows[i].index : i \in 1..Len(vpw.rows)}
        IN /\ \A p \in em \cup vm :
                 Cardinality({k \in 1..Len(m) : m[k].month = p})
                     = (IF p \in em \cap vm THEN 1 ELSE 0)
           /\ \A k \in 1..Len(m) :
                 /\ m[k].month \in em \cap vm
                 /\ \A b \in 1..Len(msf) :
                       msf[b].month = m[k].month => m[k].Events = msf[b].Events
                 /\ \A i \in 1..Len(out.well_volumes) :
                       LET r == out.well_volumes[i]
                       IN (/\ r.START_DATE \div 100 = m[k].month
                           /\ r.w_id # None /\ ~IsNaN(r.TOTAL))
                          => m[k].cells[r.w_id] = Q(r.TOTAL, 1)

\* the series of well w in merged_final is an increasing affine function of
\* the event counts
PerfectlyPositive(w) ==
    LET n == Len(out.merged_final.rows)
        x == [i \in 1..n |-> out.merged_final.rows[i].Events]
        y == Scaled([i \in 1..n |-> out.merged_final.rows[i].cells[w]])
    IN /\ \A i, j, k, l \in 1..n :
             (y[i] - y[j]) * (x[k] - x[l]) = (y[k] - y[l]) * (x[i] - x[j])
       /\ \E i, j \in 1..n : x[i] < x[j] /\ y[i] < y[j]

\* C10: the nulling step turns the coefficients equal to 1 into missing values
\* and leaves the others; afterwards no Correlation equals 1, the
\* self-correlation of the event counts is missing, and a well whose series is
\* perfectly positively correlated with the event counts has a missing
\* Correlation
C10_NullOnes ==
    Done =>
        LET before == out.corr
            after  == out.corr_per_well.coef
        IN /\ DOMAIN after = DOMAIN before
           /\ \A a \in DOMAIN before : \A b \in DOMAIN before :
                 after[a][b] = (IF before[a][b] = One THEN NaNCoef
                                ELSE before[a][b])
           /\ \A w \in DOMAIN after[EventsCol] : after[EventsCol][w] # One
           /\ after[EventsCol][EventsCol] = NaNCoef
           /\ \A w \in out.merged_final.columns :
                 PerfectlyPositive(w) => after[EventsCol][w] = NaNCoef

\* the series of column a of merged_final takes a single value, or has no row
Constant(a) ==
    LET s == Series(out.merged_final, a)
    IN \A i, j \in 1..Len(s) : s[i] = s[j]

\* the matrix of coefficients is symmetric, before the nulling step and after it
Symmetric ==
    /\ \A a \in DOMAIN out.corr : \A b \in DOMAIN out.corr :
          out.corr[a][b] = out.corr[b][a]
    /\ \A a \in DOMAIN out.corr : \A b \in DOMAIN out.corr :
          out.corr_per_well.coef[a][b] = out.corr_per_well.coef[b][a]

\* C11 (as claimed): the correlation matrix is symmetric, every diagonal entry
\* is exactly 1 before the nulling step, the entry of a constant series
\* included, and every diagonal entry is missing after it
C11_UnitDiagonal ==
    Done =>
        /\ Symmetric
        /\ \A a \in DOMAIN out.corr :
              /\ out.corr[a][a] = One
              /\ out.corr_per_well.coef[a][a] = NaNCoef

\* C11 (amended): the correlation matrix is symmetric; before the nulling step
\* the diagonal entry of a column is exactly 1 when its series takes at least
\* two different values and missing when the series is constant (or has no
\* row); after the nulling step every diagonal entry is missing
C11_DiagonalOfVaryingSeries ==
    Done =>
        /\ Symmetric
        /\ DOMAIN out.corr = Labels(out.merged_final)
        /\ \A a \in DOMAIN out.corr :
              /\ out.corr[a][a] = (IF Constant(a) THEN NaNCoef ELSE One)
              /\ out.corr_per_well.coef[a][a] = NaNCoef

\* a merged table of two or more rows in which a well has a constant series
\* and a missing diagonal entry and another column varies and has the entry 1
C11_Witness ==
    /\ Done
    /\ Len(out.merged_final.rows) >= 2
    /\ \E w \in out.merged_final.columns :
          Constant(w) /\ out.corr[w][w] = NaNCoef
    /\ \E a \in DOMAIN out.corr :
          /\ ~Constant(a) /\ out.corr[a][a] = One
          /\ out.corr_per_well.coef[a][a] = NaNCoef
          /\ \E b \in DOMAIN out.corr :
                b # a /\ out.corr[a][b] # NaNCoef /\ out.corr[a][b] = out.corr[b][a]

\* no two rows of the Well table get the same w_id
UniqueWellIds ==
    \A i, j \in 1..Len(out.well_locations) :
        out.well_locations[i].w_id = out.well_locations[j].w_id => i = j

\* C12: given unique well ids (and a Volume table with at least one TOTAL),
\* wells_final has exactly one row for every row of wells, in the same order,
\* and no other row; the row carries the name, the type and the cumulative
\* volumes of the well and, as Correlation, the coefficient of the well
\* against the event counts after the nulling step
C12_WellsFinal ==
    (Done /\ HasTotal /\ UniqueWellIds) =>
        /\ Len(out.wells_final) = Len(out.wells)
        /\ \A k \in 1..Len(out.wells_final) :
              LET f == out.wells_final[k]
                  w == out.wells[k]
              IN /\ f.Name = w.Name /\ f.Type = w.Type /\ f.w_id = w.w_id
                 /\ \A c \in NumericCols : f[c] = w[c]
                 /\ f.w_id \in DOMAIN out.corr_per_well.coef[EventsCol]
                 /\ f.Correlation = out.corr_per_well.coef[EventsCol][f.w_id]

\* the three uploads of the app are present
AllSupplied == msfile # NoFile /\ wellfile # NoFile /\ volfile # NoFile

\* the files whose "Loaded" subheader the last run has to show
Supplied ==
    {f \in {"microseismic", "well_locations", "well_volumes"} :
        \/ f = "microseismic" /\ msfile # NoFile
        \/ f = "well_locations" /\ wellfile # NoFile
        \/ f = "well_volumes" /\ volfile # NoFile}

\* the last run showed the prompt, no chart and built no table
PromptOnly == out = NoTables("prompt", Supplied) /\ out.info /\ out.charts = 0

MalformedEventFile ==
    /\ msfile # NoFile
    /\ \E i \in 1..Len(msfile) : msfile[i].Date \in {NoColumn, BadDate}

\* C15: a run on an event file that lacks a required column or holds a value
\* that cannot be coerced to a timestamp stops with an error while the file is
\* loaded, before any later stage, and builds no table from it; in the app the
\* "Loaded" status of that file is not shown
C15_IngestionRejects ==
    (MalformedEventFile /\ out.status # "notrun") =>
        /\ "microseismic" \notin out.subheaders
        /\ out.status # "done"
        /\ out.status = "error" => out.stage = "load"
        /\ out.microseismic = <<>> /\ out.ms_fieldwide = <<>>

\* well w has a Volume record with a TOTAL in month p
HasRecord(w, p) ==
    \E i \in 1..Len(out.well_volumes) :
        LET r == out.well_volumes[i]
        IN r.w_id = w /\ r.START_DATE \div 100 = p /\ ~IsNaN(r.TOTAL)

\* the event counts of the rows I of merged_final, in row order
EventsAt(I) ==
    LET ix == SortedSeq(I)
    IN [k \in 1..Len(ix) |-> Q(out.merged_final.rows[ix[k]].Events, 1)]

\* the values of well w in the rows I of merged_final, in row order
TotalsAt(I, w) ==
    LET ix == SortedSeq(I)
    IN [k \in 1..Len(ix) |-> out.merged_final.rows[ix[k]].cells[w]]

\* the coefficient as wells_final shows it
Nulled(r) == IF r = One THEN NaNCoef ELSE r

\* C16 (as claimed): the Correlation of a well is the coefficient over the rows
\* of the months in which the well has a Volume record (and the event counts
\* have a row); the months without a record of the well are left out
C16_WindowOfRecordedMonths ==
    Done =>
        \A w \in out.merged_final.columns :
            LET m   == out.merged_final.rows
                win == {i \in 1..Len(m) : HasRecord(w, m[i].month)}
            IN out.corr[EventsCol][w] =
                   Pearson(EventsAt(win), TotalsAt(win, w), fpu)

\* C16 (amended): the Correlation of a well is the coefficient over all the
\* rows of merged_final, that is the months that have an event-count row and
\* a Volume record with a TOTAL of at least one well; a month of that kind in
\* which the well itself has no record enters the window of the well with the
\* value 0
C16_WindowWithZeros ==
    Done =>
        LET m   == out.merged_final.rows
            all == 1..Len(m)
        IN /\ {m[i].month : i \in all} =
                 {out.ms_fieldwide[b].month : b \in 1..Len(out.ms_fieldwide)}
                 \cap {p \in {out.well_volumes[i].START_DATE \div 100 :
                                 i \in 1..Len(out.well_volumes)} :
                           \E w \in VolumeIds : HasRecord(w, p)}
           /\ \A w \in out.merged_final.columns :
                 /\ \A i \in all :
                       /\ m[i].cells[w] # NaNQ
                       /\ ~HasRecord(w, m[i].month) => m[i].cells[w] = Q(0, 1)
                 /\ out.corr[EventsCol][w] =
                        Pearson(EventsAt(all), TotalsAt(all, w), fpu)
                 /\ \A k \in 1..Len(out.wells_final) :
                       out.wells_final[k].w_id = w =>
                           out.wells_final[k].Correlation =
                               Nulled(out.corr[EventsCol][w])

\* a well of the final table has a coefficient over three rows or more, one
\* of them the row of a month without a record of the well, with the value 0
C16_Witness ==
    /\ Done
    /\ Len(out.merged_final.rows) >= 3
    /\ \E k \in 1..Len(out.wells_final) :
          LET w == out.wells_final[k].w_id
              m == out.merged_final.rows
          IN /\ out.wells_final[k].Correlation # NaNCoef
             /\ \E i \in 1..Len(m) :
                   ~HasRecord(w, m[i].month) /\ m[i].cells[w] = Q(0, 1)
             /\ \E i \in 1..Len(m) : HasRecord(w, m[i].month)

\* C17: volume_per_well (of a Volume table with at least one TOTAL) has no
\* month key in more than one row, and the cell of a well and a month is the
\* TOTAL of the Volume record of that well and month, unchanged
C17_IdentityOneRowPerMonth ==
    (Done /\ HasTotal) =>
        LET vpw == out.volume_per_well.rows
        IN /\ \A i, j \in 1..Len(vpw) : vpw[i].index = vpw[j].index => i = j
           /\ \A k \in 1..Len(out.well_volumes) :
                 LET r == out.well_volumes[k]
                 IN (r.w_id \in out.volume_per_well.columns /\ ~IsNaN(r.TOTAL)) =>
                        \A i \in 1..Len(vpw) :
                            vpw[i].index = r.START_DATE \div 100 =>
                                vpw[i].cells[r.w_id] = Q(r.TOTAL, 1)

\* the part of a name after its first n characters
After(name, n) == SubSeq(name, n + 1, Len(name))

\* the ids, free of '-' and of 'PGKYP', of the Volume rows named 'PGKYP-' + id
HyphenatedIds ==
    {After(volfile[j].HOLE_NAME, Len(PGKYP) + 1) :
        j \in {k \in 1..Len(volfile) :
                  /\ StartsWith(volfile[k].HOLE_NAME, PGKYP \o <<DASH>>)
                  /\ Dashes(volfile[k].HOLE_NAME) = 1
                  /\ ~Contains(After(volfile[k].HOLE_NAME, Len(PGKYP) + 1), PGKYP)}}

\* the Well row named n is in wells with the key x
Joined(n, x) ==
    \E k \in 1..Len(out.wells) : out.wells[k].Name = n /\ out.wells[k].w_id = x

\* the Volume rows 'PGKYP-' + id and the Well rows 'PGKYP' + id get the key id,
\* and the Well rows are in wells
SameKeyWithoutHyphen ==
    \A x \in HyphenatedIds :
        /\ \A j \in 1..Len(volfile) :
              volfile[j].HOLE_NAME = PGKYP \o <<DASH>> \o x =>
                  out.well_volumes[j].w_id = x
        /\ \A i \in 1..Len(wellfile) :
              wellfile[i].Name = PGKYP \o x =>
                  out.well_locations[i].w_id = x /\ Joined(wellfile[i].Name, x)

\* C18: the two normalizations give the same join key: for an id without '-'
\* and 'PGKYP', the Volume rows 'PGKYP-' + id and the Well rows 'PGKYP' + id
\* get w_id = id and the well is in wells; a Well row named 'PGKYP-' + id is
\* in wells too, joined to those Volume rows
C18_SameJoinKey ==
    Done =>
        /\ SameKeyWithoutHyphen
        /\ \A x \in HyphenatedIds : \A i \in 1..Len(wellfile) :
              wellfile[i].Name = PGKYP \o <<DASH>> \o x =>
                  \E k \in 1..Len(out.wells) : out.wells[k].Name = wellfile[i].Name

====
